---- MODULE Spec2Model ----
(***************************************************************************)
(* Model of the GitHub trending developers crawler (src/main.py).          *)
(*                                                                         *)
(* The state is the interpreter's position in main() and in the functions  *)
(* it calls, the local variables of those functions, the two output files  *)
(* and the messages printed on the console.  Text is modelled by strings   *)
(* and markup by records that say which nodes and attributes are present.  *)
(***************************************************************************)
EXTENDS Integers, Sequences, FiniteSets, TLC

VARIABLES
    call,                \* the function entered from outside: main or a writer
    pc,                  \* position of the interpreter
    dir_exists,          \* OUTPUT_DIR exists on disk
    fetches,             \* number of HTTP GET requests issued
    response,            \* how the request and the parse ended, "none" before
    developer_elements,  \* soup.find_all('article', class_='Box-row')
    i,                   \* rows of developer_elements consumed by the loop
    developers,          \* the list of records (scrape's list, main's list)
    warned,              \* row numbers printed in "Error parsing developer"
    clock,               \* readings of datetime.now() taken so far
    timestamp,           \* get_timestamp() of the run, 0 before it is taken
    csv_file,            \* the tabular output file
    json_file,           \* the structured output file
    csv_saved,           \* main's csv_saved / return value of save_to_csv
    json_saved,          \* main's json_saved / return value of save_to_json
    table,               \* rows added to the preview table
    called,              \* functions entered so far
    msgs,                \* kinds of message printed so far
    exc                  \* exception that left the entered function, or "none"

vars == <<call, pc, dir_exists, fetches, response, developer_elements, i, developers,
          warned, clock, timestamp, csv_file, json_file, csv_saved,
          json_saved, table, called, msgs, exc>>

(***************************************************************************)
(* Bounds of the model.                                                    *)
(***************************************************************************)
MaxRows == 3

(***************************************************************************)
(* Constants of the program.                                               *)
(***************************************************************************)
ORIGIN == "https://github.com"

PreviewLimit == 10

UsernameBudget == 18

NameBudget == 23

PopularRepoBudget == 23

RepoDescBudget == 28

(***************************************************************************)
(* Text.                                                                   *)
(***************************************************************************)
RECURSIVE LStrip(_)
LStrip(s) ==
    IF Len(s) > 0 /\ SubSeq(s, 1, 1) = " "
    THEN LStrip(SubSeq(s, 2, Len(s)))
    ELSE s

RECURSIVE RStrip(_)
RStrip(s) ==
    IF Len(s) > 0 /\ SubSeq(s, Len(s), Len(s)) = " "
    THEN RStrip(SubSeq(s, 1, Len(s) - 1))
    ELSE s

\* str.strip()
Strip(s) == RStrip(LStrip(s))

\* s[:n]
Slice(s, n) == SubSeq(s, 1, IF Len(s) < n THEN Len(s) ELSE n)

Digit(d) == SubSeq("0123456789", d + 1, d + 1)

\* str(n) for n >= 0
RECURSIVE Str(_)
Str(n) == IF n < 10 THEN Digit(n) ELSE Str(n \div 10) \o Digit(n % 10)

(***************************************************************************)
(* Markup.  A node that is absent has present = FALSE.                     *)
(***************************************************************************)
NoA == [present |-> FALSE, text |-> "", hasHref |-> FALSE, href |-> ""]

A(text, href) == [present |-> TRUE, text |-> text, hasHref |-> TRUE, href |-> href]

ANoHref(text) == [present |-> TRUE, text |-> text, hasHref |-> FALSE, href |-> ""]

NoNode == [present |-> FALSE, text |-> "", a |-> NoA]

Node(text, a) == [present |-> TRUE, text |-> text, a |-> a]

NoImg == [present |-> FALSE, hasSrc |-> FALSE, src |-> ""]

Img(src) == [present |-> TRUE, hasSrc |-> TRUE, src |-> src]

NoArticle == [present |-> FALSE, h1 |-> NoNode, desc |-> NoNode]

Article(h1, desc) == [present |-> TRUE, h1 |-> h1, desc |-> desc]

\* One article.Box-row.  raises: some lookup of the row throws an Exception.
Row(h1, p, img, article, raises) ==
    [h1 |-> h1, p |-> p, img |-> img, article |-> article, raises |-> raises]

(***************************************************************************)
(* The rows a fetched page is made of.                                     *)
(***************************************************************************)
RowAlice ==
    Row(Node("Alice", A("  Alice Wonderland-Liddell Jr.  ", "/alice-in-wonderland-1865")),
        Node("alice", A(" alice-in-wonderland-1865 ", "/alice-in-wonderland-1865")),
        Img("https://avatars.githubusercontent.com/u/1865"),
        Article(Node("repo", A(" alice-in-wonderland-1865 / looking-glass ", "/a/l")),
                Node("  A curious tool for falling down rabbit holes  ", NoA)),
        FALSE)

RowBob ==
    Row(Node(" Robert Tables the Third ", NoA),
        Node("handle", A("robert-tables-3rd1", "/bob")),
        NoImg,
        Article(Node("bobby / drop-table-demo", NoA),
                Node("Little Bobby Tables, schemas", NoA)),
        FALSE)

RowCarol ==
    Row(Node("Carol", ANoHref("Carol")),
        Node("carol", NoA),
        [present |-> TRUE, hasSrc |-> FALSE, src |-> ""],
        Article(NoNode, NoNode),
        FALSE)

RowBlank == Row(Node("   ", NoA), NoNode, NoImg, NoArticle, FALSE)

RowDave == Row(NoNode, Node("dave", A("dave", "/dave")), NoImg, NoArticle, FALSE)

RowBad == Row(Node("Eve", A("Eve", "/eve")), Node("eve", A("eve", "/eve")), NoImg, NoArticle, TRUE)

RowSamples == {RowAlice, RowBob, RowCarol, RowBlank, RowDave, RowBad}

\* The listings a response can hold: up to MaxRows rows.
Pages == UNION {[1..n -> RowSamples] : n \in 0..MaxRows}

(***************************************************************************)
(* Extraction of one row (scrape_trending_developers, the loop body).      *)
(***************************************************************************)
\* link.get('href'): None when the attribute is missing.
GetHref(link) == [isNone |-> ~link.hasHref, value |-> link.href]

\* An f-string field: str() of the value, "None" for None.
Format(v) == IF v.isNone THEN "None" ELSE v.value

RowName(element) ==
    IF element.h1.present
    THEN IF element.h1.a.present
         THEN Strip(element.h1.a.text)
         ELSE Strip(element.h1.text)
    ELSE ""

RowProfileUrl(element) ==
    IF element.h1.present
    THEN IF element.h1.a.present
         THEN ORIGIN \o Format(GetHref(element.h1.a))
         ELSE ""
    ELSE ""

RowUsername(element) ==
    IF element.p.present
    THEN IF element.p.a.present THEN Strip(element.p.a.text) ELSE ""
    ELSE ""

RowAvatarUrl(element) ==
    IF element.img.present
    THEN IF element.img.hasSrc THEN element.img.src ELSE ""
    ELSE ""

RowPopularRepo(element) ==
    IF element.article.present
    THEN IF element.article.h1.present
         THEN IF element.article.h1.a.present
              THEN Strip(element.article.h1.a.text)
              ELSE Strip(element.article.h1.text)
         ELSE ""
    ELSE ""

RowRepoDescription(element) ==
    IF element.article.present
    THEN IF element.article.desc.present THEN Strip(element.article.desc.text) ELSE ""
    ELSE ""

\* Variant: the rank is the position in the output list.
RowRankDense(idx) == Len(developers) + 1

\* rank of the row at 0-based index idx of the enumeration
RowRank(idx) == idx + 1

\* The dict built for the row at index idx, stamped with the clock reading now.
Developer(element, idx, now) ==
    [rank |-> RowRank(idx),
     username |-> RowUsername(element),
     name |-> RowName(element),
     repo_description |-> RowRepoDescription(element),
     avatar_url |-> RowAvatarUrl(element),
     profile_url |-> RowProfileUrl(element),
     popular_repo |-> RowPopularRepo(element),
     scraped_at |-> now]

\* Variant: a row is kept only when it has both a name and a handle.
RetainedBoth(element) == RowName(element) # "" /\ RowUsername(element) # ""

\* if developer['name'] or developer['username']
Retained(element) == RowName(element) # "" \/ RowUsername(element) # ""

(***************************************************************************)
(* Exceptions.                                                             *)
(***************************************************************************)
\* The subclasses of requests.RequestException that requests.get and
\* raise_for_status raise.  Every other failure is "Exception" or "OSError";
\* "KeyboardInterrupt" is no Exception, so only main's own clause catches it.
RequestExceptions == {"ConnectionError", "Timeout", "HTTPError"}

(***************************************************************************)
(* Files.                                                                  *)
(***************************************************************************)
NoDoc == [scraped_at |-> 0, total_developers |-> 0, developers |-> <<>>]

\* state: "absent", "partial" (created, not all of the content written), "complete"
NoFile == [state |-> "absent", rows |-> <<>>, doc |-> NoDoc]

(***************************************************************************)
(* Initial state: nothing has run, nothing is on disk.                     *)
(***************************************************************************)
Init ==
    /\ call = "none"
    /\ pc = "idle"
    /\ dir_exists \in BOOLEAN
    /\ fetches = 0
    /\ response = "none"
    /\ developer_elements = <<>>
    /\ i = 0
    /\ developers = <<>>
    /\ warned = {}
    /\ clock = 0
    /\ timestamp = 0
    /\ csv_file = NoFile
    /\ json_file = NoFile
    /\ csv_saved = FALSE
    /\ json_saved = FALSE
    /\ table = <<>>
    /\ called = {}
    /\ msgs = {}
    /\ exc = "none"

(***************************************************************************)
(* main: the handlers of its try statement.                                *)
(***************************************************************************)
\* Variant: main has no handler, the exception leaves it.
MainExceptMissing(e) ==
    /\ pc' = "returned"
    /\ msgs' = msgs
    /\ exc' = e

\* except KeyboardInterrupt / except Exception: print and fall off the end.
MainExcept(e) ==
    /\ pc' = "returned"
    /\ msgs' = msgs \cup {IF e = "KeyboardInterrupt" THEN "interrupted" ELSE "main_error"}
    /\ exc' = exc

\* An exception e that no handler of the running function caught: main's try
\* statement takes it; out of a function entered directly it reaches the caller.
Raise(e) ==
    IF call = "main"
    THEN MainExcept(e)
    ELSE /\ pc' = "returned"
         /\ msgs' = msgs
         /\ exc' = e

CallMain ==
    /\ pc = "idle"
    /\ call' = "main"
    /\ pc' = "setup"
    /\ called' = called \cup {"main"}
    /\ UNCHANGED <<dir_exists, fetches, response, developer_elements, i, developers, warned,
                   clock, timestamp, csv_file, json_file, csv_saved, json_saved,
                   table, msgs, exc>>

\* setup_directories(): os.makedirs(OUTPUT_DIR, exist_ok=True)
SetupDirectories ==
    /\ pc = "setup"
    /\ called' = called \cup {"setup_directories"}
    /\ \E ok \in BOOLEAN :
          IF ok
          THEN /\ dir_exists' = TRUE
               /\ pc' = "fetch"
               /\ UNCHANGED <<msgs, exc>>
          ELSE /\ Raise("OSError")
               /\ UNCHANGED dir_exists
    /\ UNCHANGED <<call, fetches, response, developer_elements, i, developers, warned, clock,
                   timestamp, csv_file, json_file, csv_saved, json_saved, table>>

(***************************************************************************)
(* scrape_trending_developers                                              *)
(***************************************************************************)
\* Variant: a failed request is issued again.
ScrapeExceptRetries(e) ==
    /\ msgs' = msgs \cup {IF e \in RequestExceptions THEN "fetch_error" ELSE "unexpected_error"}
    /\ developers' = <<>>
    /\ pc' = "fetch"

\* except requests.RequestException / except Exception: print, return [].
ScrapeExcept(e) ==
    /\ msgs' = msgs \cup {IF e \in RequestExceptions THEN "fetch_error" ELSE "unexpected_error"}
    /\ developers' = <<>>
    /\ pc' = "check"

\* requests.get, raise_for_status, BeautifulSoup, find_all
FetchAndParse ==
    /\ pc = "fetch"
    /\ called' = called \cup {"scrape_trending_developers"}
    /\ fetches' = fetches + 1
    /\ \E outcome \in {"ok", "Exception"} \cup RequestExceptions :
       /\ response' = outcome
       /\ IF outcome = "ok"
          THEN /\ \E page \in Pages : developer_elements' = page
               /\ developers' = <<>>
               /\ msgs' = msgs \cup {"found"}
               /\ pc' = "rows"
          ELSE /\ ScrapeExcept(outcome)
               /\ UNCHANGED developer_elements
    /\ i' = 0
    /\ UNCHANGED <<call, dir_exists, warned, clock, timestamp, csv_file, json_file,
                   csv_saved, json_saved, table, exc>>

\* Variant: no handler inside the loop, the exception ends the scrape.
RowExceptAborts(n) ==
    /\ msgs' = msgs \cup {"unexpected_error"}
    /\ developers' = <<>>
    /\ pc' = "check"
    /\ UNCHANGED <<warned, i, clock>>

\* except Exception as e: print the warning with the row number n, continue
RowExcept(n) ==
    /\ warned' = warned \cup {n}
    /\ i' = i + 1
    /\ UNCHANGED <<developers, clock, pc, msgs>>

\* One pass of the for loop over enumerate(developer_elements).
ParseRow ==
    /\ pc = "rows"
    /\ i < Len(developer_elements)
    /\ LET element == developer_elements[i + 1] IN
          IF element.raises
          THEN RowExcept(i + 1)
          ELSE /\ IF Retained(element)
                  THEN /\ developers' = Append(developers, Developer(element, i, clock + 1))
                       /\ clock' = clock + 1
                  ELSE UNCHANGED <<developers, clock>>
               /\ i' = i + 1
               /\ UNCHANGED <<warned, pc, msgs>>
    /\ UNCHANGED <<call, dir_exists, fetches, response, developer_elements, timestamp,
                   csv_file, json_file, csv_saved, json_saved, table, called, exc>>

\* return developers
ScrapeReturn ==
    /\ pc = "rows"
    /\ i = Len(developer_elements)
    /\ pc' = "check"
    /\ UNCHANGED <<call, dir_exists, fetches, response, developer_elements, i, developers, warned,
                   clock, timestamp, csv_file, json_file, csv_saved, json_saved,
                   table, called, msgs, exc>>

(***************************************************************************)
(* main, after the scrape                                                  *)
(***************************************************************************)
\* if not developers
NoData(devs) == devs = <<>>

\* if not developers: print, return; else take the timestamp and go on
MainCheck ==
    /\ pc = "check"
    /\ IF NoData(developers)
       THEN /\ msgs' = msgs \cup {"no_data"}
            /\ pc' = "returned"
            /\ UNCHANGED <<clock, timestamp>>
       ELSE /\ clock' = clock + 1
            /\ timestamp' = clock + 1
            /\ msgs' = msgs \cup {"saving"}
            /\ pc' = "save_csv"
    /\ UNCHANGED <<call, dir_exists, fetches, response, developer_elements, i, developers, warned,
                   csv_file, json_file, csv_saved, json_saved, table, called, exc>>

(***************************************************************************)
(* save_to_csv                                                             *)
(***************************************************************************)
CsvHeader ==
    <<"rank", "username", "name", "repo_description", "avatar_url", "profile_url",
      "popular_repo", "scraped_at">>

CsvRow(d) ==
    <<Str(d.rank), d.username, d.name, d.repo_description, d.avatar_url, d.profile_url,
      d.popular_repo, d.scraped_at>>

\* writer.writeheader(); writer.writerows(developers)
CsvRows(devs) == <<CsvHeader>> \o [k \in 1..Len(devs) |-> CsvRow(devs[k])]

\* where control goes when save_to_csv returns
AfterCsv == IF call = "main" THEN "save_json" ELSE "returned"

\* return value of save_to_csv
CsvReturn(value) ==
    /\ csv_saved' = value
    /\ pc' = AfterCsv

\* Variant: the writer has no handler, the failure leaves it.
CsvExceptPropagates(e) ==
    /\ Raise(e)
    /\ csv_saved' = csv_saved

\* except Exception as e: print, return False
CsvExcept(e) ==
    /\ msgs' = msgs \cup {"csv_error"}
    /\ exc' = exc
    /\ CsvReturn(FALSE)

\* Variant: the writer does not test for an empty list.
CsvWritesEmpty(devs) == FALSE

\* if not developers: return False
CsvRefusesEmpty(devs) == devs = <<>>

\* save_to_csv up to open(filename, 'w')
SaveToCsvOpen ==
    /\ pc = "save_csv"
    /\ called' = called \cup {"save_to_csv"}
    /\ IF CsvRefusesEmpty(developers)
       THEN /\ CsvReturn(FALSE)
            /\ UNCHANGED <<csv_file, msgs, exc>>
       ELSE \E ok \in BOOLEAN :
               IF ok
               THEN /\ csv_file' = [NoFile EXCEPT !.state = "partial"]
                    /\ pc' = "csv_write"
                    /\ UNCHANGED <<csv_saved, msgs, exc>>
               ELSE /\ CsvExcept("OSError")
                    /\ UNCHANGED csv_file
    /\ UNCHANGED <<call, dir_exists, fetches, response, developer_elements, i, developers, warned,
                   clock, timestamp, json_file, json_saved, table>>

\* the body of the with statement, and its exit
SaveToCsvWrite ==
    /\ pc = "csv_write"
    /\ \E ok \in BOOLEAN :
          IF ok
          THEN /\ csv_file' = [csv_file EXCEPT !.state = "complete", !.rows = CsvRows(developers)]
               /\ CsvReturn(TRUE)
               /\ UNCHANGED <<msgs, exc>>
          ELSE /\ CsvExcept("OSError")
               /\ UNCHANGED csv_file
    /\ UNCHANGED <<call, dir_exists, fetches, response, developer_elements, i, developers, warned,
                   clock, timestamp, json_file, json_saved, table, called>>

(***************************************************************************)
(* save_to_json                                                            *)
(***************************************************************************)
\* the dict data, stamped with the clock reading now
JsonData(devs, now) ==
    [scraped_at |-> now, total_developers |-> Len(devs), developers |-> devs]

AfterJson == IF call = "main" THEN "display" ELSE "returned"

JsonReturn(value) ==
    /\ json_saved' = value
    /\ pc' = AfterJson

\* except Exception as e: print, return False
JsonExcept(e) ==
    /\ msgs' = msgs \cup {"json_error"}
    /\ exc' = exc
    /\ JsonReturn(FALSE)

\* if not developers: return False
JsonRefusesEmpty(devs) == devs = <<>>

\* save_to_json up to open(filename, 'w'); data is built before the file is opened
SaveToJsonOpen ==
    /\ pc = "save_json"
    /\ called' = called \cup {"save_to_json"}
    /\ IF JsonRefusesEmpty(developers)
       THEN /\ JsonReturn(FALSE)
            /\ UNCHANGED <<json_file, msgs, exc, clock>>
       ELSE /\ clock' = clock + 1
            /\ \E ok \in BOOLEAN :
                  IF ok
                  THEN /\ json_file' = [NoFile EXCEPT !.state = "partial"]
                       /\ pc' = "json_write"
                       /\ UNCHANGED <<json_saved, msgs, exc>>
                  ELSE /\ JsonExcept("OSError")
                       /\ UNCHANGED json_file
    /\ UNCHANGED <<call, dir_exists, fetches, response, developer_elements, i, developers, warned,
                   timestamp, csv_file, csv_saved, table>>

\* json.dump(data, jsonfile, ...), and the exit of the with statement
SaveToJsonWrite ==
    /\ pc = "json_write"
    /\ \E ok \in BOOLEAN :
          IF ok
          THEN /\ json_file' = [json_file EXCEPT !.state = "complete",
                                                 !.doc = JsonData(developers, clock)]
               /\ JsonReturn(TRUE)
               /\ UNCHANGED <<msgs, exc>>
          ELSE /\ JsonExcept("OSError")
               /\ UNCHANGED json_file
    /\ UNCHANGED <<call, dir_exists, fetches, response, developer_elements, i, developers, warned,
                   clock, timestamp, csv_file, csv_saved, table, called>>

(***************************************************************************)
(* display_results                                                         *)
(***************************************************************************)
\* s[:b] + "..." if len(s) > b else s
Truncate(s, b) == IF Len(s) > b THEN Slice(s, b) \o "..." ELSE s

\* the cells of table.add_row for one record
TableRow(dev) ==
    <<Str(dev.rank),
      Truncate(dev.username, UsernameBudget),
      Truncate(dev.name, NameBudget),
      Truncate(dev.popular_repo, PopularRepoBudget),
      Truncate(dev.repo_description, RepoDescBudget)>>

\* developers[:10]
Preview(devs) == SubSeq(devs, 1, IF Len(devs) < PreviewLimit THEN Len(devs) ELSE PreviewLimit)

DisplayResults ==
    /\ pc = "display"
    /\ called' = called \cup {"display_results"}
    /\ \E ok \in BOOLEAN :
          IF ok
          THEN /\ IF developers = <<>>
                  THEN /\ msgs' = msgs \cup {"no_developers"}
                       /\ UNCHANGED table
                  ELSE /\ table' = [k \in 1..Len(Preview(developers)) |->
                                        TableRow(Preview(developers)[k])]
                       /\ msgs' = msgs \cup {"table"} \cup
                                    (IF Len(developers) > PreviewLimit THEN {"more"} ELSE {})
               /\ pc' = "summary"
               /\ UNCHANGED exc
          ELSE /\ Raise("Exception")
               /\ UNCHANGED table
    /\ UNCHANGED <<call, dir_exists, fetches, response, developer_elements, i, developers, warned,
                   clock, timestamp, csv_file, json_file, csv_saved, json_saved>>

(***************************************************************************)
(* main, the closing messages                                              *)
(***************************************************************************)
\* if not csv_saved or not json_saved: print the warning
SaveWarning(c, j) == IF ~c \/ ~j THEN {"save_warning"} ELSE {}

MainSummary ==
    /\ pc = "summary"
    /\ msgs' = msgs \cup {"success"}
                    \cup (IF csv_saved THEN {"csv_path"} ELSE {})
                    \cup (IF json_saved THEN {"json_path"} ELSE {})
                    \cup SaveWarning(csv_saved, json_saved)
    /\ pc' = "returned"
    /\ UNCHANGED <<call, dir_exists, fetches, response, developer_elements, i, developers, warned,
                   clock, timestamp, csv_file, json_file, csv_saved, json_saved,
                   table, called, exc>>

(***************************************************************************)
(* The interruption signal: KeyboardInterrupt is raised between any two     *)
(* bytecodes of the running function, and no except Exception catches it.  *)
(***************************************************************************)
Running == pc \notin {"idle", "returned"}

Interrupt ==
    /\ Running
    /\ Raise("KeyboardInterrupt")
    /\ UNCHANGED <<call, dir_exists, fetches, response, developer_elements, i, developers, warned,
                   clock, timestamp, csv_file, json_file, csv_saved, json_saved,
                   table, called>>

(***************************************************************************)
(* The writers entered directly, with a record list of the caller's.       *)
(***************************************************************************)
DirectArgs ==
    {<<>>} \cup {<<Developer(r, 0, 1)>> : r \in {x \in RowSamples : Retained(x)}}

CallSaveToCsv ==
    /\ pc = "idle"
    /\ call' = "save_to_csv"
    /\ \E devs \in DirectArgs : developers' = devs
    /\ pc' = "save_csv"
    /\ UNCHANGED <<dir_exists, fetches, response, developer_elements, i, warned, clock, timestamp,
                   csv_file, json_file, csv_saved, json_saved, table, called, msgs, exc>>

CallSaveToJson ==
    /\ pc = "idle"
    /\ call' = "save_to_json"
    /\ \E devs \in DirectArgs : developers' = devs
    /\ pc' = "save_json"
    /\ UNCHANGED <<dir_exists, fetches, response, developer_elements, i, warned, clock, timestamp,
                   csv_file, json_file, csv_saved, json_saved, table, called, msgs, exc>>

Next ==
    \/ CallMain
    \/ SetupDirectories
    \/ FetchAndParse
    \/ ParseRow
    \/ ScrapeReturn
    \/ MainCheck
    \/ SaveToCsvOpen
    \/ SaveToCsvWrite
    \/ SaveToJsonOpen
    \/ SaveToJsonWrite
    \/ DisplayResults
    \/ MainSummary
    \/ Interrupt
    \/ CallSaveToCsv
    \/ CallSaveToJson

Spec == Init /\ [][Next]_vars

\* The interpreter keeps running the program: a step that can be taken is taken.
FairSpec == Spec /\ WF_vars(Next)

(***************************************************************************)
(* Properties.                                                             *)
(*                                                                         *)
(* What the properties say of a row is stated from the markup, not with    *)
(* the operators of the extraction.                                        *)
(***************************************************************************)
\* the rows of the listing that have been through the loop
Seen == 1..i

\* the scrape got a listing (the request and the parse succeeded)
Listed == "found" \in msgs

\* scrape_trending_developers has returned the list built by its loop
Scraped == Listed /\ pc = "check"

NoRowRaises == \A k \in DOMAIN developer_elements : ~developer_elements[k].raises

\* the row shows a display name or a handle once its text is trimmed
Identified(row) ==
    \/ row.h1.present /\ Strip(IF row.h1.a.present THEN row.h1.a.text ELSE row.h1.text) # ""
    \/ row.p.present /\ row.p.a.present /\ Strip(row.p.a.text) # ""

\* the rows before position r that show neither name nor handle
DroppedBefore(r) == {k \in 1..(r - 1) : ~Identified(developer_elements[k])}

Ranks == [j \in 1..Len(developers) |-> developers[j].rank]

\* C1: when no row of the listing raises, every record's rank is the 1-based
\* position of its row in the listing: the record at output index j, with rank
\* r, carries the name and handle of row r, and r is j plus the number of
\* dropped rows before r (dropping a row renumbers nothing).
C1_RankIsSourcePosition ==
    (Listed /\ NoRowRaises) =>
        \A j \in 1..Len(developers) :
            LET r == developers[j].rank IN
            /\ r \in Seen
            /\ Identified(developer_elements[r])
            /\ developers[j].name = RowName(developer_elements[r])
            /\ developers[j].username = RowUsername(developer_elements[r])
            /\ r = j + Cardinality(DroppedBefore(r))

\* C1 witness: three rows, the middle one dropped, the third kept with rank 3.
C1_Witness ==
    /\ Scraped
    /\ NoRowRaises
    /\ Len(developer_elements) = 3
    /\ ~Identified(developer_elements[2])
    /\ Len(developers) = 2
    /\ developers[2].rank = 3

\* C2: a row is in the output if and only if its extraction did not raise and
\* it shows a name or a handle; the records keep the order of their rows, so
\* the ranks of the output increase strictly.
C2_RetainedIffIdentified ==
    Listed =>
        /\ \A k \in Seen :
              (\E j \in 1..Len(developers) : developers[j].rank = k)
                  <=> (~developer_elements[k].raises /\ Identified(developer_elements[k]))
        /\ \A j \in 1..Len(developers) : developers[j].rank \in Seen
        /\ \A j, l \in 1..Len(developers) : j < l => developers[j].rank < developers[l].rank
        /\ Scraped => i = Len(developer_elements)

\* C2 witness: a listing with a raising row, a dropped row and a kept row.
C2_Witness ==
    /\ Scraped
    /\ Len(developer_elements) = 3
    /\ \E k \in 1..3 : developer_elements[k].raises
    /\ \E k \in 1..3 : ~developer_elements[k].raises /\ ~Identified(developer_elements[k])
    /\ Len(developers) = 1

\* the ranks the kept rows get when the rows that raise take no position:
\* c counts the rows before k that did not raise
RECURSIVE CandidateRanks(_, _, _)
CandidateRanks(rows, k, c) ==
    IF k > Len(rows) THEN <<>>
    ELSE IF rows[k].raises THEN CandidateRanks(rows, k + 1, c)
    ELSE IF Identified(rows[k]) THEN <<c + 1>> \o CandidateRanks(rows, k + 1, c + 1)
    ELSE CandidateRanks(rows, k + 1, c + 1)

\* the ranks the kept rows get when every row of the listing takes a position
RECURSIVE SourceRanks(_, _)
SourceRanks(rows, k) ==
    IF k > Len(rows) THEN <<>>
    ELSE IF ~rows[k].raises /\ Identified(rows[k]) THEN <<k>> \o SourceRanks(rows, k + 1)
    ELSE SourceRanks(rows, k + 1)

\* C3 as stated: a row that raises is skipped, the loop goes on, and the rank
\* of a kept record is its position among the rows that did not raise.
C3_RankIsCandidatePosition ==
    Scraped =>
        /\ i = Len(developer_elements)
        /\ Ranks = CandidateRanks(developer_elements, 1, 0)

\* C3 amended: a row that raises is skipped with a warning, the loop goes on to
\* the end of the listing and the scrape does not fail, and the rank of a kept
\* record is the position of its row in the listing, rows that raised included.
C3_RaisingRowKeepsItsPosition ==
    Scraped =>
        /\ i = Len(developer_elements)
        /\ "unexpected_error" \notin msgs
        /\ warned = {k \in DOMAIN developer_elements : developer_elements[k].raises}
        /\ \A j \in 1..Len(developers) : developers[j].rank \notin warned
        /\ Ranks = SourceRanks(developer_elements, 1)

\* C3 witness: the first row raises and the second is kept, with rank 2.
C3_Witness ==
    /\ Scraped
    /\ Len(developer_elements) >= 2
    /\ developer_elements[1].raises
    /\ 1 \in warned
    /\ Len(developers) >= 1
    /\ developers[1].rank = 2

\* C4: name and profile link follow the heading: a heading with a link gives
\* the link's text and the origin followed by the link's href as it stands
\* (nothing after the origin when the link has no href); a heading without a
\* link gives the heading's text and no profile link; no heading gives neither.
C4_HeadingRule ==
    Listed =>
        \A j \in 1..Len(developers) :
            LET d == developers[j]
                h == developer_elements[d.rank].h1
            IN  /\ (h.present /\ h.a.present) =>
                       /\ d.name = Strip(h.a.text)
                       /\ d.profile_url = ORIGIN \o (IF h.a.hasHref THEN h.a.href ELSE "")
                /\ (h.present /\ ~h.a.present) =>
                       /\ d.name = Strip(h.text)
                       /\ d.profile_url = ""
                /\ ~h.present =>
                       /\ d.name = ""
                       /\ d.profile_url = ""

(***************************************************************************)
(* The terminal states of a run of main, read from what it printed: the    *)
(* run is aborted when a failure or the interruption was reported, and     *)
(* done when main returned without any such message.                       *)
(***************************************************************************)
FailureMsgs == {"fetch_error", "unexpected_error", "interrupted", "main_error"}

Returned == call = "main" /\ pc = "returned"

Aborted == Returned /\ msgs \cap FailureMsgs # {}

Done == Returned /\ msgs \cap FailureMsgs = {}

AfterScrape == {"save_to_csv", "save_to_json", "display_results"}

NoFiles == csv_file.state = "absent" /\ json_file.state = "absent"

\* C5: when the request fails, the failure is printed, the request is not
\* issued again, neither writer nor the report runs, no file is created, and
\* main returns in the aborted state.
C5_FetchFailureAborts ==
    /\ fetches <= 1
    /\ (call = "main" /\ response \in RequestExceptions) =>
          /\ "fetch_error" \in msgs
          /\ fetches = 1
          /\ called \cap AfterScrape = {}
          /\ NoFiles
          /\ table = <<>>
          /\ pc \in {"check", "returned"}
          /\ Returned => (Aborted /\ "success" \notin msgs)

\* C5 witness: the request timed out and main has returned.
C5_Witness ==
    /\ Returned
    /\ response = "Timeout"
    /\ "interrupted" \notin msgs

\* C6: when the listing has no row or no row is kept, main calls neither
\* writer nor the report, prints the "no data" message, creates no file and
\* ends done; and a writer entered with an empty list returns False without
\* opening its file.
C6_EmptyResultWritesNothing ==
    /\ (call = "main" /\ Listed /\ developers = <<>> /\ i = Len(developer_elements)
            /\ pc # "rows") =>
          /\ pc \in {"check", "returned"}
          /\ called \cap AfterScrape = {}
          /\ NoFiles
          /\ table = <<>>
          /\ (Returned /\ "interrupted" \notin msgs) => ("no_data" \in msgs /\ Done)
    /\ (call = "save_to_csv" /\ developers = <<>>) =>
          /\ pc # "csv_write"
          /\ NoFiles
          /\ "csv_error" \notin msgs
          /\ (pc = "returned" /\ exc = "none") =>
                (~csv_saved /\ "save_to_csv" \in called)
    /\ (call = "save_to_json" /\ developers = <<>>) =>
          /\ pc # "json_write"
          /\ NoFiles
          /\ "json_error" \notin msgs
          /\ (pc = "returned" /\ exc = "none") =>
                (~json_saved /\ "save_to_json" \in called)

\* C6 witness: a listing with rows, none kept, and main done with "no data".
C6_Witness ==
    /\ Done
    /\ Listed
    /\ Len(developer_elements) >= 1
    /\ developers = <<>>
    /\ "no_data" \in msgs

\* C7: with records to save, an I/O failure of a writer ends in that writer as
\* its False return value: the other writer and the report are still called,
\* whichever writers fail, and the warning is printed exactly when a writer
\* failed.
C7_WriterFailureIsLocal ==
    call = "main" =>
        /\ "csv_error" \in msgs => (~csv_saved /\ csv_file.state # "complete")
        /\ "json_error" \in msgs => (~json_saved /\ json_file.state # "complete")
        /\ (Returned /\ "saving" \in msgs /\ "interrupted" \notin msgs) =>
               AfterScrape \subseteq called
        /\ ("main_error" \in msgs /\ "save_to_csv" \in called) =>
               "display_results" \in called
        /\ (Returned /\ "success" \in msgs) =>
               /\ table # <<>>
               /\ "save_warning" \in msgs <=> ("csv_error" \in msgs \/ "json_error" \in msgs)
               /\ "csv_path" \in msgs <=> csv_file.state = "complete"
               /\ "json_path" \in msgs <=> json_file.state = "complete"

\* C7 witness: the tabular writer failed, the structured one succeeded, the
\* report ran and the warning was printed.
C7_Witness ==
    /\ Returned
    /\ "csv_error" \in msgs
    /\ json_file.state = "complete"
    /\ table # <<>>
    /\ "save_warning" \in msgs

\* C8: an interruption leaves no output file partly written: once main has
\* reported the interruption, each file is absent or complete.
C8_InterruptLeavesNoPartialFile ==
    (call = "main" /\ "interrupted" \in msgs) =>
        /\ csv_file.state \in {"absent", "complete"}
        /\ json_file.state \in {"absent", "complete"}

\* a value v of a column with budget b and the cell it is shown in
WithinBudget(v, cell, b) ==
    IF Len(v) > b
    THEN /\ Len(cell) = b
         /\ cell = SubSeq(v, 1, b - 3) \o "..."
    ELSE cell = v

\* C9: in the preview a value longer than its column's budget b is shown as
\* exactly b characters, its first b - 3 followed by "...", and a value of at
\* most b characters is shown as it is.
C9_TruncationLaw ==
    \A k \in 1..Len(table) :
        /\ WithinBudget(developers[k].username, table[k][2], UsernameBudget)
        /\ WithinBudget(developers[k].name, table[k][3], NameBudget)
        /\ WithinBudget(developers[k].popular_repo, table[k][4], PopularRepoBudget)
        /\ WithinBudget(developers[k].repo_description, table[k][5], RepoDescBudget)

\* C10: every run of main ends: whatever fails, main returns with a closing
\* message printed and no exception leaves it.
C10_MainTerminates ==
    (call = "main") ~>
        (/\ Returned
         /\ exc = "none"
         /\ msgs \cap {"no_data", "success", "interrupted", "main_error"} # {})

\* C10 witness: a failure reached main's handler and main returned.
C10_Witness ==
    /\ Returned
    /\ "main_error" \in msgs
    /\ exc = "none"

====
